---- MODULE Spec2Model ----
(***************************************************************************)
(* Model of rsmpi's datatype layer (src/datatype/mod.rs): system and user  *)
(* datatypes, the lifecycle of the engine handles behind UserDatatype,     *)
(* the Collection/Pointer/AsDatatype capabilities of values and slices,    *)
(* View/MutView and Partition/PartitionMut.                                *)
(*                                                                         *)
(* The MPI engine sits behind ffi::*; it is modelled by what the MPI       *)
(* standard says the calls made by this file do: MPI_Type_<ctor> binds a   *)
(* handle that is not in use to a new layout object, MPI_Type_commit       *)
(* commits the object bound to a handle, MPI_Type_free releases the object *)
(* bound to the handle and stores MPI_DATATYPE_NULL in the handle cell.    *)
(***************************************************************************)
EXTENDS Integers, Sequences, FiniteSets, TLC

VARIABLES objs, types, views, parts, memo, last

vars == <<objs, types, views, parts, memo, last>>

(***************************************************************************)
(* Bounds of the model.                                                    *)
(***************************************************************************)
MaxTypes == 2
MaxHandles == 2
MaxViews == 1
MaxParts == 1

(***************************************************************************)
(* Count is the engine's count type, a signed 32 bit integer.  TLC's own   *)
(* integers are 32 bit too, so a number that Count cannot hold is kept in  *)
(* two parts: a slice length (usize) is q * 2^31 + r with 0 <= r < 2^31.   *)
(***************************************************************************)
CountMax == 2147483647
CountMin == -CountMax - 1

usize(q, r) == [q |-> q, r |-> r]

(***************************************************************************)
(* Handles.  The values are opaque; the model numbers them.                *)
(***************************************************************************)
RSMPI_DATATYPE_NULL == 0
RSMPI_FLOAT == 1
RSMPI_DOUBLE == 2
RSMPI_INT8_T == 3
RSMPI_INT16_T == 4
RSMPI_INT32_T == 5
RSMPI_INT64_T == 6
RSMPI_UINT8_T == 7
RSMPI_UINT16_T == 8
RSMPI_UINT32_T == 9
RSMPI_UINT64_T == 10

SystemHandles == RSMPI_FLOAT .. RSMPI_UINT64_T
UserHandles == { RSMPI_UINT64_T + i : i \in 1 .. MaxHandles }

PrimitiveTypes == {"f32", "f64", "i8", "i16", "i32", "i64", "u8", "u16", "u32", "u64"}

SystemDatatype(h) == [kind |-> "SystemDatatype", id |-> h]

\* a UserDatatype value is named by its position in types
UserDatatypeRef(k) == [kind |-> "UserDatatype", id |-> k]

\* the $mpitype each equivalent_system_datatype!($rstype, $mpitype) names
mpitype(t) ==
    CASE t = "f32" -> RSMPI_FLOAT
      [] t = "f64" -> RSMPI_DOUBLE
      [] t = "i8"  -> RSMPI_INT8_T
      [] t = "i16" -> RSMPI_INT16_T
      [] t = "i32" -> RSMPI_INT32_T
      [] t = "i64" -> RSMPI_INT64_T
      [] t = "u8"  -> RSMPI_UINT8_T
      [] t = "u16" -> RSMPI_UINT16_T
      [] t = "u32" -> RSMPI_UINT32_T
      [] t = "u64" -> RSMPI_UINT64_T

\* a mapping that hands out the handle created last once there is one
equivalent_datatype_latest(t) ==
    IF objs # <<>> THEN SystemDatatype(objs[Len(objs)].h) ELSE SystemDatatype(mpitype(t))

equivalent_datatype(t) == SystemDatatype(mpitype(t))

\* AsRaw for SystemDatatype, UserDatatype and references to them
as_raw(ts, d) == IF d.kind = "SystemDatatype" THEN d.id ELSE ts[d.id].raw

(***************************************************************************)
(* The engine.  objs is the sequence of layout objects the engine has      *)
(* created, in creation order; a handle is bound to the last object        *)
(* created under it, and is in use while that object is not released.      *)
(* A machine state m carries objs, types and the engine calls made by the  *)
(* operation that is running.                                              *)
(***************************************************************************)
ObjOf(os, h) ==
    LET S == { i \in DOMAIN os : os[i].h = h }
    IN  IF S = {} THEN 0 ELSE CHOOSE i \in S : \A j \in S : j <= i

InUse(os) == { os[i].h : i \in { j \in DOMAIN os : ObjOf(os, os[j].h) = j /\ os[j].frees = 0 } }

Begin == [objs |-> objs, types |-> types, calls |-> <<>>, newtype |-> RSMPI_DATATYPE_NULL]

\* MPI_Type_contiguous, _vector, _hvector, _indexed, _create_hindexed,
\* _create_indexed_block, _create_hindexed_block: h is the handle the engine picks
MPI_Type_create(m, fn, oldraw, h) ==
    [m EXCEPT !.objs = Append(@, [h |-> h, old |-> oldraw, commits |-> 0, frees |-> 0]),
              !.calls = Append(@, <<fn, oldraw>>),
              !.newtype = h]

MPI_Type_commit(m, h) ==
    LET i == ObjOf(m.objs, h)
    IN  [m EXCEPT !.objs = IF i = 0 THEN @ ELSE [@ EXCEPT ![i].commits = @ + 1],
                  !.calls = Append(@, <<"MPI_Type_commit", h>>)]

\* MPI_Type_free(&mut self.0) on the handle cell of types[k]; a handle that is
\* bound to no object (the null handle) is an erroneous argument and the cell
\* is left as it is
MPI_Type_free(m, k) ==
    LET h == m.types[k].raw
        i == ObjOf(m.objs, h)
    IN  [m EXCEPT !.objs = IF i = 0 THEN @ ELSE [@ EXCEPT ![i].frees = @ + 1],
                  !.types = IF i = 0 THEN @ ELSE [@ EXCEPT ![k].raw = RSMPI_DATATYPE_NULL],
                  !.calls = Append(@, <<"MPI_Type_free", h>>)]

\* a drop that forgets the engine object
drop_without_free(m, k) ==
    [m EXCEPT !.types[k].raw = RSMPI_DATATYPE_NULL, !.types[k].scope = "dropped"]

\* a drop that looks at the handle first and leaves a null handle alone
drop_guarded(m, k) ==
    IF m.types[k].raw = RSMPI_DATATYPE_NULL
    THEN m
    ELSE [MPI_Type_free(m, k) EXCEPT !.types[k].scope = "dropped"]

\* a drop that releases the old type along with the descriptor
drop_with_oldtype(m, k) ==
    LET m1 == [MPI_Type_free(m, k) EXCEPT !.types[k].scope = "dropped"]
        o  == m.types[k].oldtype
    IN  IF o.kind = "UserDatatype" /\ m1.types[o.id].scope = "owned"
        THEN MPI_Type_free(m1, o.id)
        ELSE m1

(***************************************************************************)
(* impl Drop for UserDatatype                                              *)
(***************************************************************************)
drop(m, k) ==
    LET m1 == MPI_Type_free(m, k)
    IN  [m1 EXCEPT !.types[k].scope =
            IF m1.types[k].raw = RSMPI_DATATYPE_NULL THEN "dropped" ELSE "poisoned"]

\* UserDatatype(newtype): the value the constructor returns
Wrap(m, oldtype) ==
    [m EXCEPT !.types = Append(@, [raw |-> m.newtype, scope |-> "owned", oldtype |-> oldtype])]

\* the oldtype argument leaves scope when the constructor returns or unwinds:
\* a UserDatatype passed by value is dropped, a reference or a SystemDatatype is not
EndArg(m, oldtype, byValue) ==
    IF oldtype.kind = "UserDatatype" /\ byValue THEN drop(m, oldtype.id) ELSE m

(***************************************************************************)
(* Collection for [T]: self.len().value_as().expect(..).  value_as is the  *)
(* checked conversion of the conv crate from usize to Count: the value     *)
(* when Count can hold it, an error otherwise.                             *)
(***************************************************************************)
\* the conversion an `as` cast would do: the low 32 bits, as a signed number
value_as_cast(n) ==
    [ok |-> TRUE, v |-> IF n.q % 2 = 0 THEN n.r ELSE (n.r - CountMax) - 1]

value_as(n) == IF n.q = 0 THEN [ok |-> TRUE, v |-> n.r] ELSE [ok |-> FALSE, v |-> 0]

(***************************************************************************)
(* What the borrow checker holds: a UserDatatype a live View refers to     *)
(* can neither be moved nor go out of scope.                               *)
(***************************************************************************)
Borrowed(k) == \E e \in views : e.view.datatype = UserDatatypeRef(k)

Running == last.result # "abort"

Usable(oldtype, byValue) ==
    IF oldtype.kind = "SystemDatatype"
    THEN ~byValue
    ELSE /\ oldtype.id \in DOMAIN types
         /\ types[oldtype.id].scope = "owned"
         /\ byValue => ~Borrowed(oldtype.id)

CanBuild(oldtype, byValue, h) ==
    /\ Running
    /\ Len(types) < MaxTypes
    /\ h \in UserHandles \ InUse(objs)
    /\ Usable(oldtype, byValue)

Finish(m, op, result, args) ==
    /\ objs' = m.objs
    /\ types' = m.types
    /\ last' = [op |-> op, result |-> result, calls |-> m.calls, args |-> args, ret |-> 0]
    /\ UNCHANGED <<views, parts, memo>>

\* the body the seven constructors share: create, commit, wrap, return
build(fn, oldtype, byValue, h) ==
    LET m1 == MPI_Type_create(Begin, fn, as_raw(types, oldtype), h)
        m2 == MPI_Type_commit(m1, m1.newtype)
        m3 == Wrap(m2, oldtype)
    IN  EndArg(m3, oldtype, byValue)

\* a panic before the engine is called: the stack unwinds
unwind(oldtype, byValue) == EndArg(Begin, oldtype, byValue)

CtorArgs(oldtype, byValue, blen, dlen) ==
    [oldtype |-> oldtype, byValue |-> byValue, blen |-> blen, dlen |-> dlen]

contiguous(cnt, oldtype, byValue, h) ==
    /\ CanBuild(oldtype, byValue, h)
    /\ Finish(build("MPI_Type_contiguous", oldtype, byValue, h),
              "contiguous", "ok", CtorArgs(oldtype, byValue, usize(0, 0), usize(0, 0)))

vector(cnt, blocklength, stride, oldtype, byValue, h) ==
    /\ CanBuild(oldtype, byValue, h)
    /\ Finish(build("MPI_Type_vector", oldtype, byValue, h),
              "vector", "ok", CtorArgs(oldtype, byValue, usize(0, 0), usize(0, 0)))

heterogeneous_vector(cnt, blocklength, stride, oldtype, byValue, h) ==
    /\ CanBuild(oldtype, byValue, h)
    /\ Finish(build("MPI_Type_hvector", oldtype, byValue, h),
              "heterogeneous_vector", "ok", CtorArgs(oldtype, byValue, usize(0, 0), usize(0, 0)))

\* indexed without its assert_eq!
indexed_unchecked(blen, dlen, oldtype, byValue, h) ==
    /\ CanBuild(oldtype, byValue, h)
    /\ IF ~value_as(blen).ok
       THEN Finish(unwind(oldtype, byValue),
                   "indexed", "panic", CtorArgs(oldtype, byValue, blen, dlen))
       ELSE Finish(build("MPI_Type_indexed", oldtype, byValue, h),
                   "indexed", "ok", CtorArgs(oldtype, byValue, blen, dlen))

\* blocklengths and displacements are slices; blen and dlen are their lengths
indexed(blen, dlen, oldtype, byValue, h) ==
    /\ CanBuild(oldtype, byValue, h)
    /\ IF blen # dlen \/ ~value_as(blen).ok
       THEN Finish(unwind(oldtype, byValue),
                   "indexed", "panic", CtorArgs(oldtype, byValue, blen, dlen))
       ELSE Finish(build("MPI_Type_indexed", oldtype, byValue, h),
                   "indexed", "ok", CtorArgs(oldtype, byValue, blen, dlen))

heterogeneous_indexed(blen, dlen, oldtype, byValue, h) ==
    /\ CanBuild(oldtype, byValue, h)
    /\ IF blen # dlen \/ ~value_as(blen).ok
       THEN Finish(unwind(oldtype, byValue),
                   "heterogeneous_indexed", "panic", CtorArgs(oldtype, byValue, blen, dlen))
       ELSE Finish(build("MPI_Type_create_hindexed", oldtype, byValue, h),
                   "heterogeneous_indexed", "ok", CtorArgs(oldtype, byValue, blen, dlen))

indexed_block(blocklength, dlen, oldtype, byValue, h) ==
    /\ CanBuild(oldtype, byValue, h)
    /\ IF ~value_as(dlen).ok
       THEN Finish(unwind(oldtype, byValue),
                   "indexed_block", "panic", CtorArgs(oldtype, byValue, dlen, dlen))
       ELSE Finish(build("MPI_Type_create_indexed_block", oldtype, byValue, h),
                   "indexed_block", "ok", CtorArgs(oldtype, byValue, dlen, dlen))

heterogeneous_indexed_block(blocklength, dlen, oldtype, byValue, h) ==
    /\ CanBuild(oldtype, byValue, h)
    /\ IF ~value_as(dlen).ok
       THEN Finish(unwind(oldtype, byValue),
                   "heterogeneous_indexed_block", "panic", CtorArgs(oldtype, byValue, dlen, dlen))
       ELSE Finish(build("MPI_Type_create_hindexed_block", oldtype, byValue, h),
                   "heterogeneous_indexed_block", "ok", CtorArgs(oldtype, byValue, dlen, dlen))

\* the scope of an owned UserDatatype ends
Drop(k) ==
    /\ Running
    /\ k \in DOMAIN types
    /\ types[k].scope = "owned"
    /\ ~Borrowed(k)
    /\ LET m == drop(Begin, k)
       IN  Finish(m, "drop", IF m.types[k].scope = "dropped" THEN "ok" ELSE "panic",
                  [self |-> k, raw |-> types[k].raw])

(***************************************************************************)
(* drop run a second time on a value that was dropped (only unsafe code    *)
(* can do this: ptr::drop_in_place, ptr::read).  MPI_Type_free is called   *)
(* with the null handle, which is erroneous: the engine's error handler    *)
(* either aborts the process (MPI_ERRORS_ARE_FATAL) or returns an error    *)
(* code the binding does not look at (MPI_ERRORS_RETURN).                  *)
(***************************************************************************)
DropAgain(k) ==
    /\ Running
    /\ k \in DOMAIN types
    /\ types[k].scope = "dropped"
    /\ LET m == drop(Begin, k)
       IN  \/ Finish(m, "drop_again", "abort", [self |-> k, raw |-> types[k].raw])
           \/ Finish(m, "drop_again", IF m.types[k].scope = "dropped" THEN "ok" ELSE "panic",
                     [self |-> k, raw |-> types[k].raw])

(***************************************************************************)
(* Buffers: a value or a slice of a type with an equivalent datatype.      *)
(* addr is where it starts, len the length of the slice (a usize).         *)
(***************************************************************************)
Value(t, addr) == [tag |-> "value", elem |-> t, addr |-> addr, len |-> usize(0, 1)]
Slice(t, addr, len) == [tag |-> "slice", elem |-> t, addr |-> addr, len |-> len]

\* impl AsDatatype for T and for [T]
as_datatype(b) == equivalent_datatype(b.elem)

\* impl Collection for T and for [T]; ok = FALSE is the panic of expect()
count(b) == IF b.tag = "value" THEN [ok |-> TRUE, v |-> 1] ELSE value_as(b.len)

\* impl Pointer / PointerMut for T and for [T]
pointer(b) == b.addr

(***************************************************************************)
(* View and MutView                                                        *)
(***************************************************************************)
\* a constructor that cuts the count down to what the buffer holds
View_clamped(buffer, cnt, datatype) ==
    [tag |-> "View", datatype |-> datatype,
     count |-> IF cnt > count(buffer).v THEN count(buffer).v ELSE cnt, buffer |-> buffer]

View_with_count_and_datatype(buffer, cnt, datatype) ==
    [tag |-> "View", datatype |-> datatype, count |-> cnt, buffer |-> buffer]

MutView_with_count_and_datatype(buffer, cnt, datatype) ==
    [tag |-> "MutView", datatype |-> datatype, count |-> cnt, buffer |-> buffer]

View_as_datatype(v) == v.datatype
View_count(v) == v.count
View_pointer(v) == pointer(v.buffer)

(***************************************************************************)
(* Partition and PartitionMut.  A sequence of counts or displacements is   *)
(* [ptr, data]: where its first element is, and its elements.              *)
(***************************************************************************)
CountSlice(ptr, data) == [ptr |-> ptr, data |-> data]

\* c + d of two Counts.  With overflow checks (a debug build) an overflow
\* panics; without them (a release build) the sum wraps around modulo 2^32.
Overflows(c, d) ==
    \/ c > 0 /\ d > 0 /\ c > CountMax - d
    \/ c < 0 /\ d < 0 /\ c < CountMin - d

wrapping_add(c, d) ==
    IF c > 0 /\ d > 0 /\ c > CountMax - d
    THEN ((c - CountMax) - 1) + ((d - CountMax) - 1)
    ELSE IF c < 0 /\ d < 0 /\ c < CountMin - d
         THEN ((c + CountMax) + 1) + ((d + CountMax) + 1)
         ELSE c + d

Min(a, b) == IF a <= b THEN a ELSE b

\* counts.iter().zip(displs.iter()).all(|(&c, &d)| c + d <= n), from pair i on:
\* "ok", "assert" (the assert! fails) or "overflow" (the addition panics)
RECURSIVE AllFit(_, _, _, _, _)
AllFit(cs, ds, n, overflowChecks, i) ==
    IF i > Min(Len(cs), Len(ds)) THEN "ok"
    ELSE IF Overflows(cs[i], ds[i]) /\ overflowChecks THEN "overflow"
    ELSE IF wrapping_add(cs[i], ds[i]) <= n
         THEN AllFit(cs, ds, n, overflowChecks, i + 1)
         ELSE "assert"

\* a constructor that stores the two sequences the wrong way round
Partition_swapped(buf, cts, dsp) ==
    [tag |-> "Partition", buf |-> buf, counts |-> dsp, displs |-> cts]

Partition_new(buf, cts, dsp) ==
    [tag |-> "Partition", buf |-> buf, counts |-> cts, displs |-> dsp]

PartitionMut_new(buf, cts, dsp) ==
    [tag |-> "PartitionMut", buf |-> buf, counts |-> cts, displs |-> dsp]

Partition_as_datatype(p) == as_datatype(p.buf)
Partition_pointer(p) == pointer(p.buf)
counts(p) == p.counts
displs(p) == p.displs
as_ptr(sl) == sl.ptr
counts_ptr(p) == as_ptr(counts(p))
displs_ptr(p) == as_ptr(displs(p))

(***************************************************************************)
(* Operations on buffers.  None of them touches the engine.                *)
(***************************************************************************)
Done(op, result, args, ret) ==
    last' = [op |-> op, result |-> result, calls |-> <<>>, args |-> args, ret |-> ret]

\* buf.count() on a value or a slice
Count(b) ==
    /\ Running
    /\ LET r == count(b)
       IN  Done("count", IF r.ok THEN "ok" ELSE "panic", [buf |-> b], r.v)
    /\ UNCHANGED <<objs, types, views, parts, memo>>

\* the outcome of Partition::new and PartitionMut::new before the struct is built
Admit(buf, cts, dsp, overflowChecks) ==
    LET n == count(buf)
    IN  IF ~n.ok THEN "count"
        ELSE AllFit(cts.data, dsp.data, n.v, overflowChecks, 1)

PartArgs(buf, cts, dsp, overflowChecks) ==
    [buf |-> buf, counts |-> cts, displs |-> dsp, overflowChecks |-> overflowChecks]

\* Partition::new borrows buf, PartitionMut::new borrows it mutably
NewPartition(buf, cts, dsp, overflowChecks) ==
    /\ Running
    /\ Cardinality(parts) < MaxParts
    /\ \A e \in parts : e.part.buf = buf => e.part.tag = "Partition"
    /\ LET a == Admit(buf, cts, dsp, overflowChecks)
       IN  IF a = "ok"
           THEN /\ parts' = parts \cup { [part |-> Partition_new(buf, cts, dsp),
                                          given |-> PartArgs(buf, cts, dsp, overflowChecks)] }
                /\ Done("Partition::new", "ok", PartArgs(buf, cts, dsp, overflowChecks), 0)
           ELSE /\ parts' = parts
                /\ Done("Partition::new", "panic", PartArgs(buf, cts, dsp, overflowChecks), 0)
    /\ UNCHANGED <<objs, types, views, memo>>

NewPartitionMut(buf, cts, dsp, overflowChecks) ==
    /\ Running
    /\ Cardinality(parts) < MaxParts
    /\ \A e \in parts : e.part.buf # buf
    /\ LET a == Admit(buf, cts, dsp, overflowChecks)
       IN  IF a = "ok"
           THEN /\ parts' = parts \cup { [part |-> PartitionMut_new(buf, cts, dsp),
                                          given |-> PartArgs(buf, cts, dsp, overflowChecks)] }
                /\ Done("PartitionMut::new", "ok", PartArgs(buf, cts, dsp, overflowChecks), 0)
           ELSE /\ parts' = parts
                /\ Done("PartitionMut::new", "panic", PartArgs(buf, cts, dsp, overflowChecks), 0)
    /\ UNCHANGED <<objs, types, views, memo>>

\* a Partition or PartitionMut goes out of scope
EndPartition(e) ==
    /\ Running
    /\ e \in parts
    /\ parts' = parts \ {e}
    /\ Done("end_partition", "ok", <<>>, 0)
    /\ UNCHANGED <<objs, types, views, memo>>

ViewArgs(buffer, cnt, datatype) ==
    [buffer |-> buffer, count |-> cnt, datatype |-> datatype, raw |-> as_raw(types, datatype)]

\* View::with_count_and_datatype borrows buffer and datatype
NewView(buffer, cnt, datatype) ==
    /\ Running
    /\ Cardinality(views) < MaxViews
    /\ Usable(datatype, FALSE)
    /\ \A e \in views : e.view.buffer = buffer => e.view.tag = "View"
    /\ views' = views \cup { [view |-> View_with_count_and_datatype(buffer, cnt, datatype),
                              given |-> ViewArgs(buffer, cnt, datatype)] }
    /\ Done("View::with_count_and_datatype", "ok", ViewArgs(buffer, cnt, datatype), 0)
    /\ UNCHANGED <<objs, types, parts, memo>>

\* MutView::with_count_and_datatype borrows buffer mutably
NewMutView(buffer, cnt, datatype) ==
    /\ Running
    /\ Cardinality(views) < MaxViews
    /\ Usable(datatype, FALSE)
    /\ \A e \in views : e.view.buffer # buffer
    /\ views' = views \cup { [view |-> MutView_with_count_and_datatype(buffer, cnt, datatype),
                              given |-> ViewArgs(buffer, cnt, datatype)] }
    /\ Done("MutView::with_count_and_datatype", "ok", ViewArgs(buffer, cnt, datatype), 0)
    /\ UNCHANGED <<objs, types, parts, memo>>

\* a View or MutView goes out of scope
EndView(e) ==
    /\ Running
    /\ e \in views
    /\ views' = views \ {e}
    /\ Done("end_view", "ok", <<>>, 0)
    /\ UNCHANGED <<objs, types, parts, memo>>

\* <T as EquivalentDatatype>::equivalent_datatype(); the caller may keep the result
EquivalentDatatype(t, keep) ==
    /\ Running
    /\ LET d == equivalent_datatype(t)
       IN  /\ Done("equivalent_datatype", "ok", [t |-> t], d)
           /\ memo' = IF keep THEN [t |-> t, out |-> d] ELSE memo
    /\ UNCHANGED <<objs, types, views, parts>>

\* as_datatype() on a value or a slice
AsDatatype(b) ==
    /\ Running
    /\ Done("as_datatype", "ok", [t |-> b.elem], as_datatype(b))
    /\ UNCHANGED <<objs, types, views, parts, memo>>

(***************************************************************************)
(* Inputs.                                                                 *)
(***************************************************************************)
OldPrimitives == {"f64", "i32"}
OldTypes == { equivalent_datatype(t) : t \in OldPrimitives }
              \cup { UserDatatypeRef(k) : k \in DOMAIN types }
CountArgs == {3}
IndexLens == {usize(0, 0), usize(0, 2), usize(1, 0)}

Init ==
    /\ objs = <<>>
    /\ types = <<>>
    /\ views = {}
    /\ parts = {}
    /\ memo = [t |-> "none", out |-> SystemDatatype(RSMPI_DATATYPE_NULL)]
    /\ last = [op |-> "init", result |-> "ok", calls |-> <<>>, args |-> <<>>, ret |-> 0]

Next ==
    \/ \E c \in CountArgs, o \in OldTypes, v \in BOOLEAN, h \in UserHandles :
          contiguous(c, o, v, h)
    \/ \E c \in CountArgs, o \in OldTypes, v \in BOOLEAN, h \in UserHandles :
          vector(c, 1, c, o, v, h)
    \/ \E c \in CountArgs, o \in OldTypes, v \in BOOLEAN, h \in UserHandles :
          heterogeneous_vector(c, 1, 8 * c, o, v, h)
    \/ \E b \in IndexLens, d \in IndexLens, o \in OldTypes, v \in BOOLEAN, h \in UserHandles :
          indexed(b, d, o, v, h)
    \/ \E b \in IndexLens, d \in IndexLens, o \in OldTypes, v \in BOOLEAN, h \in UserHandles :
          heterogeneous_indexed(b, d, o, v, h)
    \/ \E c \in CountArgs, d \in IndexLens, o \in OldTypes, v \in BOOLEAN, h \in UserHandles :
          indexed_block(c, d, o, v, h)
    \/ \E c \in CountArgs, d \in IndexLens, o \in OldTypes, v \in BOOLEAN, h \in UserHandles :
          heterogeneous_indexed_block(c, d, o, v, h)
    \/ \E k \in 1 .. MaxTypes : Drop(k)

Spec == Init /\ [][Next]_vars

NextDoubleDrop ==
    \/ Next
    \/ \E k \in 1 .. MaxTypes : DropAgain(k)

SpecDoubleDrop == Init /\ [][NextDoubleDrop]_vars

(***************************************************************************)
(* The buffers, counts and displacements the operations are tried on.      *)
(***************************************************************************)
Buffers ==
    { Slice("f64", 4096, usize(0, 10)), Value("i32", 8192),
      Slice("u8", 12288, usize(1, 0)) }

CountLens == { usize(0, 0), usize(0, 10), usize(0, CountMax), usize(1, 0), usize(1, 5), usize(2, 3) }
CountBuffers ==
    { Slice(t, 4096, l) : t \in {"f64", "u8"}, l \in CountLens }
      \cup { Value(t, 8192) : t \in PrimitiveTypes }

CountsArgs == { CountSlice(256, <<3, 3>>), CountSlice(256, <<3, 100>>), CountSlice(256, <<CountMax>>) }
DisplsArgs == { CountSlice(512, <<0, 5>>), CountSlice(512, <<0, 8>>), CountSlice(512, <<0>>),
                CountSlice(512, <<1>>) }

NextBuffer ==
    \/ \E b \in CountBuffers : Count(b)
    \/ \E b \in Buffers, c \in CountsArgs, d \in DisplsArgs, oc \in BOOLEAN :
          NewPartition(b, c, d, oc)
    \/ \E b \in Buffers, c \in CountsArgs, d \in DisplsArgs, oc \in BOOLEAN :
          NewPartitionMut(b, c, d, oc)
    \/ \E e \in parts : EndPartition(e)

SpecBuffer == Init /\ [][NextBuffer]_vars

\* the program has built one UserDatatype, contiguous(3, f64)
InitView ==
    /\ objs = << [h |-> RSMPI_UINT64_T + 1, old |-> RSMPI_DOUBLE, commits |-> 1, frees |-> 0] >>
    /\ types = << [raw |-> RSMPI_UINT64_T + 1, scope |-> "owned",
                   oldtype |-> SystemDatatype(RSMPI_DOUBLE)] >>
    /\ views = {}
    /\ parts = {}
    /\ memo = [t |-> "none", out |-> SystemDatatype(RSMPI_DATATYPE_NULL)]
    /\ last = [op |-> "contiguous", result |-> "ok",
               calls |-> << <<"MPI_Type_contiguous", RSMPI_DOUBLE>>,
                            <<"MPI_Type_commit", RSMPI_UINT64_T + 1>> >>,
               args |-> CtorArgs(SystemDatatype(RSMPI_DOUBLE), FALSE, usize(0, 0), usize(0, 0)),
               ret |-> 0]

ViewBuffers == { Slice("f64", 4096, usize(0, 10)), Value("i32", 8192), Slice("u8", 0, usize(0, 0)) }
ViewCounts == {-1, 4, CountMax}

NextView ==
    \/ \E b \in ViewBuffers, c \in ViewCounts, d \in OldTypes : NewView(b, c, d)
    \/ \E b \in ViewBuffers, c \in ViewCounts, d \in OldTypes : NewMutView(b, c, d)
    \/ \E e \in views : EndView(e)
    \/ \E k \in 1 .. MaxTypes : Drop(k)

SpecView == InitView /\ [][NextView]_vars

NextEquivalence ==
    \/ \E t \in PrimitiveTypes, keep \in BOOLEAN : EquivalentDatatype(t, keep)
    \/ \E t \in PrimitiveTypes : AsDatatype(Value(t, 8192))
    \/ \E t \in PrimitiveTypes : AsDatatype(Slice(t, 4096, usize(0, 10)))
    \/ \E o \in OldTypes, h \in UserHandles : contiguous(3, o, FALSE, h)
    \/ \E k \in 1 .. MaxTypes : Drop(k)

SpecEquivalence == Init /\ [][NextEquivalence]_vars

(***************************************************************************)
(* Properties.                                                             *)
(***************************************************************************)
Constructors ==
    {"contiguous", "vector", "heterogeneous_vector", "indexed", "heterogeneous_indexed",
     "indexed_block", "heterogeneous_indexed_block"}

CreateCalls ==
    {"MPI_Type_contiguous", "MPI_Type_vector", "MPI_Type_hvector", "MPI_Type_indexed",
     "MPI_Type_create_hindexed", "MPI_Type_create_indexed_block",
     "MPI_Type_create_hindexed_block"}

CallsOf(fns) == { i \in DOMAIN last.calls : last.calls[i][1] \in fns }

\* C1: every layout object the engine has created belongs to exactly one
\* UserDatatype value and was committed exactly once before that value was
\* returned; it is unreleased while its owner is in scope and released exactly
\* once (never twice) when the owner has been dropped, so that nothing is left
\* once every owner is gone; a constructor that panics has created no object.
C1_Lifecycle ==
    /\ Len(objs) = Len(types)
    /\ \A k \in DOMAIN types :
          /\ objs[k].commits = 1
          /\ types[k].scope \in {"owned", "dropped"}
          /\ types[k].scope = "owned" =>
                /\ objs[k].frees = 0
                /\ types[k].raw = objs[k].h
                /\ ObjOf(objs, objs[k].h) = k
          /\ types[k].scope = "dropped" =>
                /\ objs[k].frees = 1
                /\ types[k].raw = RSMPI_DATATYPE_NULL
    /\ (\A k \in DOMAIN types : types[k].scope = "dropped") => InUse(objs) = {}
    /\ (last.op \in Constructors /\ last.result = "panic") => CallsOf(CreateCalls) = {}
    /\ (last.op \in Constructors /\ last.result = "ok") =>
          /\ Cardinality(CallsOf(CreateCalls)) = 1
          /\ Cardinality(CallsOf({"MPI_Type_commit"})) = 1

\* C1 witness: two descriptors, the second built from the first, both dropped
C1_Witness ==
    /\ Len(types) = 2
    /\ types[2].oldtype.kind = "UserDatatype"
    /\ \A k \in DOMAIN types : types[k].scope = "dropped"

C3_MismatchFailsFirst ==
    [][ (/\ last'.op \in {"indexed", "heterogeneous_indexed"}
         /\ last'.args.blen # last'.args.dlen)
        => (/\ last'.result = "panic"
            /\ \A i \in DOMAIN last'.calls :
                  last'.calls[i][1] \notin (CreateCalls \cup {"MPI_Type_commit"})
            /\ Len(objs') = Len(objs)
            /\ Len(types') = Len(types)) ]_vars

\* C3 witness: indexed was called with two blocklengths and no displacement
C3_Witness ==
    /\ last.op = "indexed"
    /\ last.args.blen = usize(0, 2)
    /\ last.args.dlen = usize(0, 0)
    /\ last.result = "panic"

\* the sum c + d of two Counts, as a number, is at most n
SumAtMost(c, d, n) ==
    IF c > 0 /\ d > 0 /\ c > CountMax - d THEN FALSE
    ELSE IF c < 0 /\ d < 0 /\ c < CountMin - d THEN TRUE
    ELSE c + d <= n

Fits(cts, dsp, n) ==
    \A i \in 1 .. Min(Len(cts.data), Len(dsp.data)) : SumAtMost(cts.data[i], dsp.data[i], n)

\* C4: Partition::new and PartitionMut::new on a buffer of n elements succeed
\* exactly when counts[i] + displs[i] <= n for every partition index i, and
\* every Partition that exists satisfies it.
C4_SucceedsIffAllFit ==
    /\ (last.op \in {"Partition::new", "PartitionMut::new"} /\ count(last.args.buf).ok) =>
          (last.result = "ok"
             <=> Fits(last.args.counts, last.args.displs, count(last.args.buf).v))
    /\ \A e \in parts : Fits(counts(e.part), displs(e.part), count(e.part.buf).v)

\* C5: count() of a slice whose length Count can hold is that length, count()
\* of a slice whose length Count cannot hold panics, count() of a value is 1.
C5_CountIsLength ==
    last.op = "count" =>
        LET b == last.args.buf
        IN  /\ b.tag = "value" => (last.result = "ok" /\ last.ret = 1)
            /\ (b.tag = "slice" /\ b.len.q = 0) => (last.result = "ok" /\ last.ret = b.len.r)
            /\ (b.tag = "slice" /\ b.len.q > 0) => last.result = "panic"

\* C5 witness: count() of a slice of 2 * 2^31 + 3 elements
C5_Witness ==
    /\ last.op = "count"
    /\ last.args.buf.tag = "slice"
    /\ last.args.buf.len = usize(2, 3)
    /\ last.result = "panic"

\* C6: a derived descriptor's handle differs from its old type's handle; drop
\* calls MPI_Type_free for its own handle only; an old type whose owner is in
\* scope keeps its handle and is unreleased, whatever happened to descriptors
\* built from it, and is released at most once; no MPI_Type_free call is ever
\* made for a system handle.
C6_OldTypeUntouched ==
    /\ \A k \in DOMAIN objs : objs[k].h # objs[k].old
    /\ \A k \in DOMAIN types :
          types[k].oldtype.kind = "UserDatatype" =>
             LET j == types[k].oldtype.id
             IN  /\ objs[j].frees <= 1
                 /\ types[j].scope = "owned" =>
                       /\ objs[j].frees = 0
                       /\ types[j].raw = objs[j].h
                       /\ objs[k].old = objs[j].h
    /\ last.op = "drop" => last.calls = << <<"MPI_Type_free", last.args.raw>> >>
    /\ \A i \in DOMAIN last.calls :
          last.calls[i][1] = "MPI_Type_free" => last.calls[i][2] \notin SystemHandles
    /\ \A k \in DOMAIN objs : objs[k].h \notin SystemHandles

\* C6 witness: a derived descriptor was just dropped, its old type is in scope
C6_Witness ==
    /\ last.op = "drop"
    /\ types[last.args.self].oldtype.kind = "UserDatatype"
    /\ types[types[last.args.self].oldtype.id].scope = "owned"

\* C7: every View and MutView that exists reports the address of the buffer,
\* the count and the datatype it was constructed with, the datatype still has
\* the handle it had then, and the constructors reject nothing.
C7_ViewVerbatim ==
    /\ \A e \in views :
          /\ View_pointer(e.view) = pointer(e.given.buffer)
          /\ View_count(e.view) = e.given.count
          /\ View_as_datatype(e.view) = e.given.datatype
          /\ as_raw(types, View_as_datatype(e.view)) = e.given.raw
    /\ last.op \in {"View::with_count_and_datatype", "MutView::with_count_and_datatype"} =>
          /\ last.result = "ok"
          /\ \E e \in views : e.given = last.args

\* C7 witness: a View of more elements than the buffer has, with a datatype
\* that is not the buffer's
C7_Witness ==
    \E e \in views :
        /\ e.view.tag = "View"
        /\ e.given.count > count(e.given.buffer).v
        /\ e.given.datatype # as_datatype(e.given.buffer)

\* C8: a Partition or PartitionMut that exists returns the address and the
\* datatype of the buffer it wraps, the counts and the displacements it was
\* constructed with, pointers to their first elements, and the buffer is as it
\* was given.
C8_PartitionPassThrough ==
    \A e \in parts :
        /\ Partition_pointer(e.part) = pointer(e.given.buf)
        /\ Partition_as_datatype(e.part) = as_datatype(e.given.buf)
        /\ counts(e.part) = e.given.counts
        /\ displs(e.part) = e.given.displs
        /\ counts_ptr(e.part) = as_ptr(e.given.counts)
        /\ displs_ptr(e.part) = as_ptr(e.given.displs)
        /\ e.part.buf = e.given.buf

\* C8 witness: the partition of ten elements into [0, 3) and [5, 8)
C8_Witness ==
    \E e \in parts :
        /\ e.part.tag = "Partition"
        /\ e.given.counts.data = <<3, 3>>
        /\ e.given.displs.data = <<0, 5>>

\* C9: equivalent_datatype() and as_datatype() of a value or slice return a
\* system handle, the one any earlier call for the same type returned,
\* whatever was constructed or released in between, and never a handle of a
\* derived descriptor.
C9_EquivalenceStable ==
    last.op \in {"equivalent_datatype", "as_datatype"} =>
        /\ last.ret.kind = "SystemDatatype"
        /\ last.ret.id \in SystemHandles
        /\ memo.t = last.args.t => last.ret = memo.out
        /\ \A k \in DOMAIN objs : objs[k].h # last.ret.id

\* C9 witness: as_datatype() of an f64 after a result for f64 was kept and
\* descriptors were built and released
C9_Witness ==
    /\ last.op = "as_datatype"
    /\ last.args.t = "f64"
    /\ memo.t = "f64"
    /\ Len(types) = 2
    /\ \E k \in DOMAIN types : types[k].scope = "dropped"

\* C10: every Partition and PartitionMut that exists holds as many counts as
\* displacements.
C10_EqualLengths ==
    \A e \in parts : Len(counts(e.part).data) = Len(displs(e.part).data)

\* C11: over the whole Count range, Partition::new and PartitionMut::new fail
\* whenever the sum counts[i] + displs[i], as a number, exceeds the element
\* count n of the buffer for some pair i they compare; a sum that wrapped
\* around modulo 2^32 is never accepted.
C11_NoWrappedSumAccepted ==
    (/\ last.op \in {"Partition::new", "PartitionMut::new"}
     /\ count(last.args.buf).ok
     /\ \E i \in 1 .. Min(Len(last.args.counts.data), Len(last.args.displs.data)) :
           ~SumAtMost(last.args.counts.data[i], last.args.displs.data[i],
                      count(last.args.buf).v))
        => last.result = "panic"

====
